---------------------------- MODULE Spec2Model ----------------------------
(***************************************************************************)
(* A model of spade's geometric primitives (src/src/primitives.rs):        *)
(* EdgeSideInfo, SimpleEdge, SimpleTriangle and SimpleCircle.              *)
(*                                                                         *)
(* The primitives are pure functions over immutable values.  Every         *)
(* specification below draws the arguments of a call in its initial state  *)
(* and has one action per operation, which applies the operation to the    *)
(* arguments and records what it returns (or that it panicked).            *)
(*                                                                         *)
(* Points are 2D points with integer coordinates on a small grid.  Scalars *)
(* computed by the floating point operations (project_point,               *)
(* nearest_point, distance2) are exact rationals <<n, d>> in lowest terms, *)
(* extended with the IEEE values NaN (<<0, 0>>), +inf (<<1, 0>>) and       *)
(* -inf (<<-1, 0>>) that a division by zero produces; rounding is not      *)
(* modelled.                                                               *)
(***************************************************************************)
EXTENDS Integers, Sequences, FiniteSets, TLC

VARIABLES
    t1,         \* a SimpleTriangle: self / the left operand of ==
    t2,         \* a SimpleTriangle: rhs, the right operand of ==
    e1,         \* a SimpleEdge: self
    e2,         \* a SimpleEdge: other
    q,          \* a query point
    circle,     \* a SimpleCircle
    ccwOnLine,  \* what the kernel's is_ordered_ccw answers for collinear points
    pc,         \* "start" before the call, afterwards the operation applied
    ret         \* the value the operation returned

vars == <<t1, t2, e1, e2, q, circle, ccwOnLine, pc, ret>>

\* Largest coordinate of the grid the edges, triangles and query points of the
\* geometric specifications are drawn from.
MaxCoord == 2

\* Largest x coordinate of the points the triangles compared by == are built from.
MaxEqX == 1

\* Largest absolute value of a circle's radius.
MaxRadius == 2

\* Largest absolute value of a determinant handed to from_determinant.
MaxDet == 5

\* The value of a variable a specification does not use, and of ret before the call.
Null == "null"

-----------------------------------------------------------------------------
(* Integer helpers *)

Abs(x) == IF x < 0 THEN -x ELSE x

Sign(x) == IF x > 0 THEN 1 ELSE IF x < 0 THEN -1 ELSE 0

Min2(x, y) == IF x <= y THEN x ELSE y

Max2(x, y) == IF x >= y THEN x ELSE y

RECURSIVE Gcd(_, _)
Gcd(a, b) == IF b = 0 THEN a ELSE Gcd(b, a % b)

-----------------------------------------------------------------------------
(* Floating point scalars (SpadeFloat), without rounding: <<n, d>> is n / d  *)
(* in lowest terms with d > 0; <<0, 0>> is NaN, <<1, 0>> is +inf and         *)
(* <<-1, 0>> is -inf.                                                        *)

NaN == <<0, 0>>

\* n / d for integers n and d, normalised; a zero d gives NaN or an infinity
Rat(n, d) ==
    IF d = 0 THEN <<Sign(n), 0>>
    ELSE LET g == Gcd(Abs(n), Abs(d))
         IN  <<(Sign(d) * n) \div g, Abs(d) \div g>>

FromInt(n) == <<n, 1>>

\* zero() and one()
Zero == FromInt(0)

One == FromInt(1)

FAdd(a, b) ==
    IF a[2] = 0 /\ b[2] = 0 THEN (IF a = b THEN a ELSE NaN)
    ELSE Rat(a[1] * b[2] + b[1] * a[2], a[2] * b[2])

FNeg(a) == <<-a[1], a[2]>>

FSub(a, b) == FAdd(a, FNeg(b))

FMul(a, b) == Rat(a[1] * b[1], a[2] * b[2])

\* 1 / a: 1 / 0 is +inf, 1 / inf is 0, 1 / NaN is NaN
FRecip(a) ==
    IF a[1] = 0 THEN (IF a[2] = 0 THEN NaN ELSE <<1, 0>>)
    ELSE <<Sign(a[1]) * a[2], Abs(a[1])>>

FDiv(a, b) == FMul(a, FRecip(b))

\* a < b and a <= b; every comparison with NaN is false
FLt(a, b) ==
    /\ a # NaN /\ b # NaN
    /\ IF a[2] = 0 /\ b[2] = 0 THEN a[1] < b[1]
       ELSE a[1] * b[2] < b[1] * a[2]

FLe(a, b) ==
    /\ a # NaN /\ b # NaN
    /\ IF a[2] = 0 /\ b[2] = 0 THEN a[1] <= b[1]
       ELSE a[1] * b[2] <= b[1] * a[2]

-----------------------------------------------------------------------------
(* Points (PointN / TwoDimensional with an integer grid of coordinates) *)

Grid == (0..MaxCoord) \X (0..MaxCoord)

EqGrid == (0..MaxEqX) \X (0..1)

\* PointN::sub, add, dot, length2 on points with integer coordinates
PSub(a, b) == <<a[1] - b[1], a[2] - b[2]>>

PDot(a, b) == a[1] * b[1] + a[2] * b[2]

PLength2(a) == PDot(a, a)

\* A point with integer coordinates as a point with floating point coordinates
FP(a) == <<FromInt(a[1]), FromInt(a[2])>>

\* PointN::sub, length2 and distance2 on points with floating point coordinates
FPSub(a, b) == <<FSub(a[1], b[1]), FSub(a[2], b[2])>>

FPLength2(a) == FAdd(FMul(a[1], a[1]), FMul(a[2], a[2]))

FPDistance2(a, b) == FPLength2(FPSub(a, b))

\* PointNExtensions::lex_compare: -1 (Less), 0 (Equal), 1 (Greater)
LexCompare(a, b) ==
    IF a[1] # b[1] THEN (IF a[1] < b[1] THEN -1 ELSE 1)
    ELSE IF a[2] # b[2] THEN (IF a[2] < b[2] THEN -1 ELSE 1)
    ELSE 0

-----------------------------------------------------------------------------
(* EdgeSideInfo *)

\* EdgeSideInfo::from_determinant
FromDeterminant(s) == [signed_side |-> s]

\* IsOnLeftSide with the fault of a non-strict test in place of the strict one.
IsOnLeftSideNonStrict(info) == info.signed_side >= 0

\* EdgeSideInfo::is_on_left_side
IsOnLeftSide(info) == info.signed_side > 0

\* EdgeSideInfo::is_on_right_side
IsOnRightSide(info) == info.signed_side < 0

\* EdgeSideInfo::is_on_line
IsOnLine(info) == Abs(info.signed_side) = 0

\* EdgeSideInfoEq with the fault of comparing the right side only, on-line or not.
EdgeSideInfoEqRightOnly(self, other) ==
    IsOnRightSide(self) = IsOnRightSide(other)

\* impl PartialEq for EdgeSideInfo: eq
EdgeSideInfoEq(self, other) ==
    IF IsOnLine(self) \/ IsOnLine(other)
    THEN IsOnLine(self) /\ IsOnLine(other)
    ELSE IsOnRightSide(self) = IsOnRightSide(other)

-----------------------------------------------------------------------------
(* The orientation kernel (TrivialKernel, the plain determinant) *)

\* SimpleEdge::new
Edge(from, to) == [from |-> from, to |-> to]

\* TrivialKernel::side_query: the determinant of (to - from, q - from), positive
\* when q is on the left of from -> to
KernelSideQuery(edge, p) ==
    LET a == edge.from
        b == edge.to
    IN  FromDeterminant((b[1] - a[1]) * (p[2] - a[2]) - (b[2] - a[2]) * (p[1] - a[1]))

\* TrivialKernel::is_ordered_ccw.  What it answers for collinear points is not
\* fixed by the kernel's contract: ccwOnLine is either answer.
IsOrderedCcw(v0, v1, v2) ==
    LET info == KernelSideQuery(Edge(v0, v1), v2)
    IN  IF IsOnLine(info) THEN ccwOnLine ELSE IsOnLeftSide(info)

-----------------------------------------------------------------------------
(* SimpleEdge *)

\* SimpleEdge::side_query::<TrivialKernel>
SideQuery(self, p) == KernelSideQuery(self, p)

\* The outcome of a call that may panic: <<>> when it panicked, <<v>> when it
\* returned v.
Panicked == <<>>

Returned(v) == <<v>>

\* IntersectsEdgeNonCollinear with the fault of a precondition that rejects the
\* edges once any one side query is on the line (any in place of all).
IntersectsEdgeNonCollinearAny(self, other) ==
    LET other_from == SideQuery(self, other.from)
        other_to == SideQuery(self, other.to)
        self_from == SideQuery(other, self.from)
        self_to == SideQuery(other, self.to)
    IN  IF \E i \in {other_from, other_to, self_from, self_to} : IsOnLine(i)
        THEN Panicked
        ELSE Returned(~EdgeSideInfoEq(other_from, other_to)
                      /\ ~EdgeSideInfoEq(self_from, self_to))

\* SimpleEdge::intersects_edge_non_collinear::<TrivialKernel>
IntersectsEdgeNonCollinear(self, other) ==
    LET other_from == SideQuery(self, other.from)
        other_to == SideQuery(self, other.to)
        self_from == SideQuery(other, self.from)
        self_to == SideQuery(other, self.to)
    IN  IF \A i \in {other_from, other_to, self_from, self_to} : IsOnLine(i)
        THEN Panicked
        ELSE Returned(~EdgeSideInfoEq(other_from, other_to)
                      /\ ~EdgeSideInfoEq(self_from, self_to))

\* SimpleEdge::project_point
ProjectPoint(self, query_point) ==
    LET p1 == self.from
        p2 == self.to
        dir == PSub(p2, p1)
    IN  FDiv(FromInt(PDot(PSub(query_point, p1), dir)), FromInt(PLength2(dir)))

\* SimpleEdge::nearest_point
NearestPoint(self, query_point) ==
    LET p1 == self.from
        p2 == self.to
        dir == PSub(p2, p1)
        s == ProjectPoint(self, query_point)
    IN  IF FLt(Zero, s) /\ FLt(s, One)
        THEN <<FAdd(FromInt(p1[1]), FMul(FromInt(dir[1]), s)),
               FAdd(FromInt(p1[2]), FMul(FromInt(dir[2]), s))>>
        ELSE IF FLe(s, Zero) THEN FP(p1)
        ELSE FP(p2)

\* impl SpatialObject for SimpleEdge: distance2
EdgeDistance2(self, point) ==
    LET nn == NearestPoint(self, point)
    IN  FPLength2(FPSub(FP(point), nn))

-----------------------------------------------------------------------------
(* SimpleTriangle: vertices, equality, hash *)

\* SimpleTriangle::new
Triangle(v0, v1, v2) == [v0 |-> v0, v1 |-> v1, v2 |-> v2]

\* SimpleTriangle::vertices, indexed 0..2 as the array in the source
Vertices(t) == [i \in 0..2 |-> IF i = 0 THEN t.v0 ELSE IF i = 1 THEN t.v1 ELSE t.v2]

\* vr.iter().position(|v| *v == vl0): Some(the first index holding vl0) as
\* <<index>>, None as <<>>
Position(vr, vl0) ==
    IF vr[0] = vl0 THEN <<0>>
    ELSE IF vr[1] = vl0 THEN <<1>>
    ELSE IF vr[2] = vl0 THEN <<2>>
    ELSE <<>>

\* TriangleEq with the fault of a derived, field by field equality.
TriangleEqFieldwise(self, rhs) ==
    self.v0 = rhs.v0 /\ self.v1 = rhs.v1 /\ self.v2 = rhs.v2

\* impl PartialEq for SimpleTriangle: eq
TriangleEq(self, rhs) ==
    LET vl == Vertices(self)
        vr == Vertices(rhs)
        found == Position(vr, vl[0])
    IN  IF found # <<>>
        THEN LET index == found[1]
                 r1 == vr[(index + 1) % 3]
                 r2 == vr[(index + 2) % 3]
             IN  vl[1] = r1 /\ vl[2] = r2
        ELSE FALSE

\* slice::sort_by(|l, r| l.lex_compare(r)): a stable insertion of x into the
\* sorted sequence s, after every element that does not compare Greater
RECURSIVE InsertSorted(_, _)
InsertSorted(s, x) ==
    IF s = <<>> THEN <<x>>
    ELSE IF LexCompare(x, Head(s)) < 0 THEN <<x>> \o s
    ELSE <<Head(s)>> \o InsertSorted(Tail(s), x)

RECURSIVE SortBy(_)
SortBy(s) ==
    IF s = <<>> THEN <<>>
    ELSE InsertSorted(SortBy(SubSeq(s, 1, Len(s) - 1)), s[Len(s)])

\* TriangleHash with the fault of hashing the vertices in their stored order,
\* as a derived Hash would.
TriangleHashUnsorted(self) == <<self.v0, self.v1, self.v2>>

\* impl Hash for SimpleTriangle: hash.  The result is the sequence fed to the
\* hasher.
TriangleHash(self) == SortBy(<<self.v0, self.v1, self.v2>>)

\* NearestPointOnEdge with the fault of strict comparisons in place of <=.
NearestPointOnEdgeStrict(self, pos) ==
    LET p0 == NearestPoint(Edge(self.v0, self.v1), pos)
        p1 == NearestPoint(Edge(self.v1, self.v2), pos)
        p2 == NearestPoint(Edge(self.v2, self.v0), pos)
        d0 == FPDistance2(p0, FP(pos))
        d1 == FPDistance2(p1, FP(pos))
        d2 == FPDistance2(p2, FP(pos))
    IN  IF FLt(d0, d1) /\ FLt(d0, d2) THEN p0
        ELSE IF FLt(d1, d0) /\ FLt(d1, d2) THEN p1
        ELSE p2

\* SimpleTriangle::nearest_point_on_edge
NearestPointOnEdge(self, pos) ==
    LET e0 == Edge(self.v0, self.v1)
        e_1 == Edge(self.v1, self.v2)
        e_2 == Edge(self.v2, self.v0)
        p0 == NearestPoint(e0, pos)
        p1 == NearestPoint(e_1, pos)
        p2 == NearestPoint(e_2, pos)
        d0 == FPDistance2(p0, FP(pos))
        d1 == FPDistance2(p1, FP(pos))
        d2 == FPDistance2(p2, FP(pos))
    IN  IF FLe(d0, d1) /\ FLe(d0, d2) THEN p0
        ELSE IF FLe(d1, d0) /\ FLe(d1, d2) THEN p1
        ELSE p2

\* The edge built in round i of the loop of distance2
LoopEdge(self, i) == Edge(Vertices(self)[i], Vertices(self)[(i + 1) % 3])

\* impl SpatialObject for SimpleTriangle: distance2
TriangleDistance2(self, point) ==
    LET ordered_ccw == IsOrderedCcw(self.v0, self.v1, self.v2)
        outside(i) == IsOnRightSide(SideQuery(LoopEdge(self, i), point)) = ordered_ccw
    IN  IF outside(0) THEN EdgeDistance2(LoopEdge(self, 0), point)
        ELSE IF outside(1) THEN EdgeDistance2(LoopEdge(self, 1), point)
        ELSE IF outside(2) THEN EdgeDistance2(LoopEdge(self, 2), point)
        ELSE Zero

-----------------------------------------------------------------------------
(* SimpleCircle *)

\* SimpleCircle::new
Circle(center, radius) == [center |-> center, radius |-> radius]

\* impl SpatialObject for SimpleCircle: contains
CircleContains(self, point) ==
    LET d2 == PLength2(PSub(point, self.center))
        r2 == self.radius * self.radius
    IN  d2 <= r2

-----------------------------------------------------------------------------
(* The specification of the triangle comparisons *)

Triangles(points) == {Triangle(a, b, c) : a \in points, b \in points, c \in points}

InitTriangleEq ==
    /\ t1 \in Triangles(EqGrid)
    /\ t2 \in Triangles(EqGrid)
    /\ e1 = Null /\ e2 = Null /\ q = Null /\ circle = Null
    /\ ccwOnLine = TRUE
    /\ pc = "start"
    /\ ret = Null

\* t1 == t2
Eq ==
    /\ pc = "start"
    /\ pc' = "eq"
    /\ ret' = TriangleEq(t1, t2)
    /\ UNCHANGED <<t1, t2, e1, e2, q, circle, ccwOnLine>>

\* t1.hash(state) and t2.hash(state), each with a fresh hasher
Hash ==
    /\ pc = "start"
    /\ pc' = "hash"
    /\ ret' = <<TriangleHash(t1), TriangleHash(t2)>>
    /\ UNCHANGED <<t1, t2, e1, e2, q, circle, ccwOnLine>>

NextTriangleEq == Eq \/ Hash

SpecTriangleEq == InitTriangleEq /\ [][NextTriangleEq]_vars

-----------------------------------------------------------------------------
(* The specification of the side queries *)

Edges(points) == {Edge(a, b) : a \in points, b \in points}

InitSide ==
    /\ e1 \in Edges(Grid)
    /\ q \in Grid
    /\ t1 = Null /\ t2 = Null /\ e2 = Null /\ circle = Null
    /\ ccwOnLine = TRUE
    /\ pc = "start"
    /\ ret = Null

\* e1.side_query::<TrivialKernel>(&q)
DoSideQuery ==
    /\ pc = "start"
    /\ pc' = "side_query"
    /\ ret' = SideQuery(e1, q)
    /\ UNCHANGED <<t1, t2, e1, e2, q, circle, ccwOnLine>>

\* EdgeSideInfo::from_determinant(s), for any determinant s
DoFromDeterminant ==
    /\ pc = "start"
    /\ \E s \in (-MaxDet)..MaxDet :
          ret' = FromDeterminant(s)
    /\ pc' = "from_determinant"
    /\ UNCHANGED <<t1, t2, e1, e2, q, circle, ccwOnLine>>

NextSide == DoSideQuery \/ DoFromDeterminant

SpecSide == InitSide /\ [][NextSide]_vars

-----------------------------------------------------------------------------
(* The specification of the edge intersection test *)

InitIntersect ==
    /\ e1 \in Edges(Grid)
    /\ e2 \in Edges(Grid)
    /\ t1 = Null /\ t2 = Null /\ q = Null /\ circle = Null
    /\ ccwOnLine = TRUE
    /\ pc = "start"
    /\ ret = Null

\* e1.intersects_edge_non_collinear::<TrivialKernel>(&e2)
DoIntersects ==
    /\ pc = "start"
    /\ pc' = "intersects"
    /\ ret' = IntersectsEdgeNonCollinear(e1, e2)
    /\ UNCHANGED <<t1, t2, e1, e2, q, circle, ccwOnLine>>

NextIntersect == DoIntersects

SpecIntersect == InitIntersect /\ [][NextIntersect]_vars

-----------------------------------------------------------------------------
(* The specification of the triangle's distance queries *)

InitDistance ==
    /\ t1 \in Triangles(Grid)
    /\ q \in Grid
    /\ ccwOnLine \in BOOLEAN
    /\ t2 = Null /\ e1 = Null /\ e2 = Null /\ circle = Null
    /\ pc = "start"
    /\ ret = Null

\* t1.distance2(&q)
DoDistance2 ==
    /\ pc = "start"
    /\ pc' = "distance2"
    /\ ret' = TriangleDistance2(t1, q)
    /\ UNCHANGED <<t1, t2, e1, e2, q, circle, ccwOnLine>>

\* t1.nearest_point_on_edge(&q)
DoNearestPointOnEdge ==
    /\ pc = "start"
    /\ pc' = "nearest_point_on_edge"
    /\ ret' = NearestPointOnEdge(t1, q)
    /\ UNCHANGED <<t1, t2, e1, e2, q, circle, ccwOnLine>>

NextDistance == DoDistance2 \/ DoNearestPointOnEdge

SpecDistance == InitDistance /\ [][NextDistance]_vars

-----------------------------------------------------------------------------
(* The specification of the circle's containment query *)

Circles == {Circle(o, r) : o \in Grid, r \in (-MaxRadius)..MaxRadius}

InitCircle ==
    /\ circle \in Circles
    /\ q \in Grid
    /\ t1 = Null /\ t2 = Null /\ e1 = Null /\ e2 = Null
    /\ ccwOnLine = TRUE
    /\ pc = "start"
    /\ ret = Null

\* circle.contains(&q)
DoContains ==
    /\ pc = "start"
    /\ pc' = "contains"
    /\ ret' = CircleContains(circle, q)
    /\ UNCHANGED <<t1, t2, e1, e2, q, circle, ccwOnLine>>

NextCircle == DoContains

SpecCircle == InitCircle /\ [][NextCircle]_vars

-----------------------------------------------------------------------------
(* Claims about triangle equality and hashing *)

\* The vertex sequence of r is a cyclic rotation of the vertex sequence of l.
IsRotation(l, r) ==
    \/ <<r.v0, r.v1, r.v2>> = <<l.v0, l.v1, l.v2>>
    \/ <<r.v0, r.v1, r.v2>> = <<l.v1, l.v2, l.v0>>
    \/ <<r.v0, r.v1, r.v2>> = <<l.v2, l.v0, l.v1>>

PairwiseDistinct(t) == t.v0 # t.v1 /\ t.v1 # t.v2 /\ t.v0 # t.v2

\* C1: for all triangles, repeated vertices included, t1 == t2 returns true
\* if and only if the vertex sequence of t2 is a cyclic rotation of that of t1.
C1_EqIffRotation == pc = "eq" => (ret <=> IsRotation(t1, t2))

\* C4: triangles that compare equal feed the same sequence (their vertices
\* sorted lexicographically) to the hasher.
C4_HashConsistent ==
    pc = "hash" => (TriangleEq(t1, t2) => ret[1] = ret[2])

\* Two equal triangles of three distinct points, stored in different orders.
C4_Witness ==
    /\ pc = "hash"
    /\ PairwiseDistinct(t1)
    /\ TriangleEq(t1, t2)
    /\ <<t1.v0, t1.v1, t1.v2>> # <<t2.v0, t2.v1, t2.v2>>
    /\ ret[1] = ret[2]

\* C7: for pairwise distinct A, B, C the triangle (A,B,C) equals (B,C,A) and
\* (C,A,B), with either one as the left operand, and does not equal (A,C,B).
C7_RotationNotReflection ==
    (pc = "eq" /\ PairwiseDistinct(t1)) =>
        /\ (t2 = Triangle(t1.v1, t1.v2, t1.v0) => ret)
        /\ (t2 = Triangle(t1.v2, t1.v0, t1.v1) => ret)
        /\ (t2 = Triangle(t1.v0, t1.v2, t1.v1) => ~ret)

\* A rotation of three distinct points that compares equal.
C7_Witness ==
    /\ pc = "eq"
    /\ PairwiseDistinct(t1)
    /\ t2 = Triangle(t1.v1, t1.v2, t1.v0)
    /\ ret

\* C10: equality is symmetric: t1 == t2 gives what t2 == t1 gives.
C10_EqSymmetric == pc = "eq" => (ret <=> TriangleEq(t2, t1))

-----------------------------------------------------------------------------
(* Claims about the side queries and the edge intersection test *)

\* C8: exactly one of is_on_left_side, is_on_right_side, is_on_line holds of
\* the EdgeSideInfo of any side query (and of any determinant), and is_on_line
\* holds only when signed_side is zero.
C8_ExactlyOneSide ==
    pc \in {"side_query", "from_determinant"} =>
        LET l == IsOnLeftSide(ret)
            r == IsOnRightSide(ret)
            o == IsOnLine(ret)
        IN  /\ l \/ r \/ o
            /\ ~(l /\ r) /\ ~(l /\ o) /\ ~(r /\ o)
            /\ o => ret.signed_side = 0

\* A query point on the line of a proper edge, other than its end points.
C8_Witness ==
    /\ pc = "side_query"
    /\ e1.from # e1.to
    /\ q # e1.from /\ q # e1.to
    /\ IsOnLine(ret)
    /\ ~IsOnLeftSide(ret) /\ ~IsOnRightSide(ret)

\* The four side queries of intersects_edge_non_collinear all classify as
\* on-line.
AllFourOnLine(self, other) ==
    /\ IsOnLine(SideQuery(self, other.from))
    /\ IsOnLine(SideQuery(self, other.to))
    /\ IsOnLine(SideQuery(other, self.from))
    /\ IsOnLine(SideQuery(other, self.to))

\* C5: intersects_edge_non_collinear panics exactly when all four side queries
\* classify as on-line, and then produces no boolean; in every other case it
\* returns a boolean.
C5_PanicIffAllOnLine ==
    pc = "intersects" =>
        /\ ret = Panicked <=> AllFourOnLine(e1, e2)
        /\ ret # Panicked => (Len(ret) = 1 /\ ret[1] \in BOOLEAN)

\* Two collinear proper edges: the call panics.
C5_Witness ==
    /\ pc = "intersects"
    /\ e1.from # e1.to /\ e2.from # e2.to
    /\ AllFourOnLine(e1, e2)
    /\ ret = Panicked

\* (u - o) x (v - o)
Cross(o, u, v) == (u[1] - o[1]) * (v[2] - o[2]) - (u[2] - o[2]) * (v[1] - o[1])

\* p lies on the closed segment from a to b
OnSegment(p, a, b) ==
    /\ Cross(a, b, p) = 0
    /\ Min2(a[1], b[1]) <= p[1] /\ p[1] <= Max2(a[1], b[1])
    /\ Min2(a[2], b[2]) <= p[2] /\ p[2] <= Max2(a[2], b[2])

\* The closed segments a and b share at least one point: for directions that
\* are not parallel, the lines meet at a.from + (tn / den) (a.to - a.from) =
\* b.from + (un / den) (b.to - b.from), with both parameters in [0, 1]; parallel
\* segments share a point exactly when an end point of one lies on the other.
SegmentsSharePoint(a, b) ==
    LET d1 == PSub(a.to, a.from)
        d2 == PSub(b.to, b.from)
        w == PSub(b.from, a.from)
        den == d1[1] * d2[2] - d1[2] * d2[1]
        tn == w[1] * d2[2] - w[2] * d2[1]
        un == w[1] * d1[2] - w[2] * d1[1]
    IN  IF den # 0
        THEN /\ 0 <= tn * Sign(den) /\ tn * Sign(den) <= Abs(den)
             /\ 0 <= un * Sign(den) /\ un * Sign(den) <= Abs(den)
        ELSE \/ OnSegment(b.from, a.from, a.to)
             \/ OnSegment(b.to, a.from, a.to)
             \/ OnSegment(a.from, b.from, b.to)
             \/ OnSegment(a.to, b.from, b.to)

\* C6: when intersects_edge_non_collinear does not panic, it returns true if
\* and only if the two closed segments share at least one point.
C6_TrueIffSegmentsShare ==
    (pc = "intersects" /\ ret # Panicked) =>
        (ret[1] <=> SegmentsSharePoint(e1, e2))

\* The edges only touch: an end point of e2 lies inside e1.
C6_Witness ==
    /\ pc = "intersects"
    /\ e1.from # e1.to /\ e2.from # e2.to
    /\ OnSegment(e2.from, e1.from, e1.to)
    /\ e2.from # e1.from /\ e2.from # e1.to
    /\ ret = Returned(TRUE)

-----------------------------------------------------------------------------
(* Claims about the triangle's distance queries *)

\* p lies in the closed triangle t (its interior, an edge or a vertex); a
\* triangle with collinear vertices is the union of its edges.
InClosedTriangle(t, p) ==
    LET o == Cross(t.v0, t.v1, t.v2)
    IN  IF o # 0
        THEN /\ Cross(t.v0, t.v1, p) * Sign(o) >= 0
             /\ Cross(t.v1, t.v2, p) * Sign(o) >= 0
             /\ Cross(t.v2, t.v0, p) * Sign(o) >= 0
        ELSE \/ OnSegment(p, t.v0, t.v1)
             \/ OnSegment(p, t.v1, t.v2)
             \/ OnSegment(p, t.v2, t.v0)

FMin2(a, b) == IF FLe(a, b) THEN a ELSE b

\* The least of SimpleEdge::distance2 over the edges v0v1, v1v2, v2v0
MinEdgeDistance2(t, p) ==
    FMin2(EdgeDistance2(Edge(t.v0, t.v1), p),
          FMin2(EdgeDistance2(Edge(t.v1, t.v2), p),
                EdgeDistance2(Edge(t.v2, t.v0), p)))

\* C2: for a query point that is not inside the triangle, distance2 is the
\* least of the squared distances to the three edges.
C2_OutsideIsNearestEdge ==
    (pc = "distance2" /\ ~InClosedTriangle(t1, q)) =>
        ret = MinEdgeDistance2(t1, q)

\* C9: nearest_point_on_edge returns a point at the least of the squared
\* distances from the query point to its nearest points on v0v1, v1v2, v2v0,
\* namely the nearest point of the first edge, in that order, that attains it.
C9_NearestOfFirstMinimalEdge ==
    pc = "nearest_point_on_edge" =>
        LET p(i) == NearestPoint(LoopEdge(t1, i), q)
            d(i) == FPDistance2(p(i), FP(q))
            m == FMin2(d(0), FMin2(d(1), d(2)))
            first == CHOOSE i \in 0..2 : d(i) = m /\ \A j \in 0..2 : j < i => d(j) # m
        IN  /\ FPDistance2(ret, FP(q)) = m
            /\ ret = p(first)

\* Two edges attain the least distance at different points, and the first
\* of them is not v0v1.
C9_Witness ==
    /\ pc = "nearest_point_on_edge"
    /\ LET p(i) == NearestPoint(LoopEdge(t1, i), q)
           d(i) == FPDistance2(p(i), FP(q))
       IN  /\ d(1) = d(2) /\ FLt(d(1), d(0))
           /\ p(1) # p(2)
           /\ ret = p(1)

\* C11: for every triangle, of either winding order or with collinear
\* vertices, and every point, distance2 is zero if and only if the point lies
\* in the closed triangle.
C11_ZeroIffInClosedTriangle ==
    pc = "distance2" => (ret = Zero <=> InClosedTriangle(t1, q))

-----------------------------------------------------------------------------
(* Claims about the circle *)

\* C3: a circle with a negative radius contains no point.
C3_NegativeRadiusEmpty ==
    (pc = "contains" /\ circle.radius < 0) => ret = FALSE

=============================================================================
